---------------------------- MODULE Spec2Model ----------------------------
(* gmail-read (src/gmail_read.py): credential acquisition (get_credentials), *)
(* the send command (main, send_message) and body extraction              *)
(* (get_message_full), each as a state machine over the program's steps.  *)
EXTENDS Integers, Sequences, FiniteSets, TLC

VARIABLES
    \* ---- get_credentials / main's error handling ----
    tokenFile,      \* TOKEN_FILE on disk: Absent, Corrupt or a credential record
    tokenFile0,     \* TOKEN_FILE as it was when the process started
    secretFile,     \* CREDENTIALS_FILE.exists()
    creds,          \* the local variable creds of get_credentials (None or a record)
    refreshCalls,   \* number of creds.refresh(Request()) calls made
    refreshFailed,  \* a refresh call raised
    flowCalls,      \* number of flow.run_local_server() calls made
    saveCalls,      \* number of TOKEN_FILE.write_text() calls made
    \* ---- the send command ----
    args,           \* the parsed command line of "send"
    original,       \* Subject header of the reply target as the remote holds it
    to,             \* local variable to of main
    subject,        \* local variable subject of main
    message,        \* the MIMEText message built by send_message
    apiCalls,       \* remote API calls made so far, in order
    \* ---- get_message_full ----
    payload,        \* msg["payload"] of the fetched message
    idx,            \* position of the for loop over payload["parts"]
    body,           \* local variable body of get_message_full
    \* ---- control ----
    pc,             \* position in the code
    result,         \* value returned by the operation (None until it returns)
    exitCode        \* process exit status once it has exited, else -1

credVars == <<tokenFile, tokenFile0, secretFile, creds, refreshCalls,
              refreshFailed, flowCalls, saveCalls>>
sendVars == <<args, original, to, subject, message, apiCalls>>
decodeVars == <<payload, idx, body>>
vars == <<credVars, sendVars, decodeVars, pc, result, exitCode>>

\* Python's None, and the two token-file states that hold no credential.
None == [kind |-> "None"]
Absent == [kind |-> "Absent"]
Corrupt == [kind |-> "Corrupt"]
NotExited == -1

-----------------------------------------------------------------------------
(* Credentials                                                              *)

READONLY == "gmail.readonly"
SEND == "gmail.send"
SCOPES == {READONLY, SEND}

\* A google.oauth2 Credentials object as get_credentials reads it: the access
\* token ("none" when the record carries no token), whether its expiry has
\* passed, whether it has a refresh token, and the scopes it reports.
Tokens == {"none", "stored", "refreshed", "granted"}
Credential == [token : Tokens, expired : BOOLEAN, refresh_token : BOOLEAN,
               scopes : SUBSET SCOPES]

\* The records a token file can hold when the process starts.
StoredCredential == {c \in Credential : c.token \in {"none", "stored"}}

\* creds.valid: an access token is present and it has not expired.
valid(c) == c.token # "none" /\ ~c.expired

\* set(SCOPES) - set(creds.scopes)
missing_scopes(c) == SCOPES \ c.scopes

\* creds after a successful creds.refresh(Request()).
refreshed(c) == [c EXCEPT !.token = "refreshed", !.expired = FALSE]

\* The credentials flow.run_local_server() returns for SCOPES.
granted == [token |-> "granted", expired |-> FALSE, refresh_token |-> TRUE,
            scopes |-> SCOPES]

\* main's "except Exception: print; sys.exit(1)" and line 75's sys.exit(1).
Exit(code) ==
    /\ pc' = "exit"
    /\ exitCode' = code
    /\ result' = None

InitCred ==
    /\ tokenFile \in {Absent, Corrupt} \cup StoredCredential
    /\ tokenFile0 = tokenFile
    /\ secretFile \in BOOLEAN
    /\ creds = None
    /\ refreshCalls = 0
    /\ refreshFailed = FALSE
    /\ flowCalls = 0
    /\ saveCalls = 0
    /\ args = None /\ original = None /\ to = None /\ subject = None
    /\ message = None /\ apiCalls = <<>>
    /\ payload = None /\ idx = 0 /\ body = None
    /\ pc = "load"
    /\ result = None
    /\ exitCode = NotExited

\* Lines 46-49, token file missing: creds stays None.
LoadAbsent ==
    /\ pc = "load"
    /\ tokenFile = Absent
    /\ creds' = None
    /\ pc' = "check"
    /\ UNCHANGED <<tokenFile, tokenFile0, secretFile, refreshCalls,
                   refreshFailed, flowCalls, saveCalls, result, exitCode,
                   sendVars, decodeVars>>

\* Line 49 on a file that does not parse: from_authorized_user_file raises,
\* nothing in get_credentials catches it, main's handler exits with 1.
LoadCorrupt ==
    /\ pc = "load"
    /\ tokenFile = Corrupt
    /\ Exit(1)
    /\ UNCHANGED <<credVars, sendVars, decodeVars>>

\* ScopeChecked without lines 52-57: the stored credential is kept whatever
\* scopes it reports.
ScopeChecked_Kept(c) == c

\* Lines 49-57: the stored credential, dropped when it reports scopes and
\* some required scope is not among them.
ScopeChecked(c) ==
    IF c.scopes # {} /\ missing_scopes(c) # {} THEN None ELSE c

LoadStored ==
    /\ pc = "load"
    /\ tokenFile \notin {Absent, Corrupt}
    /\ creds' = ScopeChecked(tokenFile)
    /\ pc' = "check"
    /\ UNCHANGED <<tokenFile, tokenFile0, secretFile, refreshCalls,
                   refreshFailed, flowCalls, saveCalls, result, exitCode,
                   sendVars, decodeVars>>

\* NeedsWork with line 59's condition dropped: the block always runs.
NeedsWork_Always(c) == TRUE

\* Line 59: "if not creds or not creds.valid".
NeedsWork(c) == c = None \/ ~valid(c)

CheckValid ==
    /\ pc = "check"
    /\ pc' = IF NeedsWork(creds) THEN "refresh" ELSE "return"
    /\ UNCHANGED <<credVars, result, exitCode, sendVars, decodeVars>>

\* Refreshable with the expiry test inverted.
Refreshable_Unexpired(c) == c # None /\ ~c.expired /\ c.refresh_token

\* Line 60: "if creds and creds.expired and creds.refresh_token".
Refreshable(c) == c # None /\ c.expired /\ c.refresh_token

\* Lines 60-65: refresh, and on any exception forget the credential.
Refresh ==
    /\ pc = "refresh"
    /\ IF Refreshable(creds)
         THEN /\ refreshCalls' = refreshCalls + 1
              /\ \E ok \in BOOLEAN :
                    /\ creds' = IF ok THEN refreshed(creds) ELSE None
                    /\ refreshFailed' = ~ok
         ELSE UNCHANGED <<creds, refreshCalls, refreshFailed>>
    /\ pc' = "reauth"
    /\ UNCHANGED <<tokenFile, tokenFile0, secretFile, flowCalls, saveCalls,
                   result, exitCode, sendVars, decodeVars>>

\* Line 67: "if not creds".
NeedsReauth(c) == c = None

\* Reauthorize without the CREDENTIALS_FILE.exists() test of lines 68-75.
Reauthorize_NoSecretCheck ==
    /\ pc = "reauth"
    /\ IF NeedsReauth(creds)
         THEN /\ flowCalls' = flowCalls + 1
              /\ creds' = granted
         ELSE UNCHANGED <<creds, flowCalls>>
    /\ pc' = "save"
    /\ UNCHANGED <<tokenFile, tokenFile0, secretFile, refreshCalls,
                   refreshFailed, saveCalls, result, exitCode, sendVars,
                   decodeVars>>

\* Lines 67-80: without a credential, exit when the client secret is missing,
\* else run the interactive flow (which may raise).
Reauthorize ==
    /\ pc = "reauth"
    /\ IF NeedsReauth(creds)
         THEN IF ~secretFile
                THEN /\ Exit(1)
                     /\ UNCHANGED <<creds, flowCalls>>
                ELSE /\ flowCalls' = flowCalls + 1
                     /\ \E ok \in BOOLEAN :
                           IF ok
                             THEN /\ creds' = granted
                                  /\ pc' = "save"
                                  /\ UNCHANGED <<result, exitCode>>
                             ELSE /\ Exit(1)
                                  /\ UNCHANGED creds
         ELSE /\ pc' = "save"
              /\ UNCHANGED <<creds, flowCalls, result, exitCode>>
    /\ UNCHANGED <<tokenFile, tokenFile0, secretFile, refreshCalls,
                   refreshFailed, saveCalls, sendVars, decodeVars>>

\* Save with lines 83-84 reached only after the interactive flow: a refreshed
\* credential is returned without being written.
Save_OnlyGranted ==
    /\ pc = "save"
    /\ IF creds = granted
         THEN /\ saveCalls' = saveCalls + 1
              /\ tokenFile' = creds
         ELSE UNCHANGED <<saveCalls, tokenFile>>
    /\ pc' = "return"
    /\ UNCHANGED <<tokenFile0, secretFile, creds, refreshCalls, refreshFailed,
                   flowCalls, result, exitCode, sendVars, decodeVars>>

\* Lines 82-84: mkdir and write_text(creds.to_json()). An OSError propagates
\* to main's handler; mkdir failing leaves the file as it was, write_text
\* failing after it opened the file leaves a truncated, unparsable one.
Save ==
    /\ pc = "save"
    /\ saveCalls' = saveCalls + 1
    /\ \E ok \in BOOLEAN :
          IF ok
            THEN /\ tokenFile' = creds
                 /\ pc' = "return"
                 /\ UNCHANGED <<result, exitCode>>
            ELSE /\ Exit(1)
                 /\ tokenFile' \in {tokenFile, Corrupt}
    /\ UNCHANGED <<tokenFile0, secretFile, creds, refreshCalls, refreshFailed,
                   flowCalls, sendVars, decodeVars>>

\* Line 86: return creds.
Return ==
    /\ pc = "return"
    /\ result' = creds
    /\ pc' = "done"
    /\ UNCHANGED <<credVars, exitCode, sendVars, decodeVars>>

NextCred ==
    \/ LoadAbsent
    \/ LoadCorrupt
    \/ LoadStored
    \/ CheckValid
    \/ Refresh
    \/ Reauthorize
    \/ Save
    \/ Return

SpecCred == InitCred /\ [][NextCred]_vars

-----------------------------------------------------------------------------
(* Strings, as sequences of characters                                      *)

MaxSubjectLen == 3

\* The characters subjects are drawn from.
Alphabet == {"R", "e", ":"}

Strings(n) == UNION {[1..k -> Alphabet] : k \in 0..n}

Range(s) == {s[i] : i \in 1..Len(s)}

\* str.lower(), on the letters a subject prefix can hold.
LowerChar(c) ==
    CASE c = "R" -> "r"
      [] c = "E" -> "e"
      [] OTHER -> c

lower(s) == [i \in 1..Len(s) |-> LowerChar(s[i])]

\* str.startswith(p)
startswith(s, p) == Len(s) >= Len(p) /\ SubSeq(s, 1, Len(p)) = p

\* The literals "re:" (lines 231, 371) and "Re: " (lines 232, 372).
re_colon == <<"r", "e", ":">>
Re_prefix == <<"R", "e", ":", " ">>

\* headers.get("Subject", "(no subject)"), lines 117 and 152.
NoSubject == <<"(", "n", "o", " ", "s", "u", "b", "j", "e", "c", "t", ")">>

\* str.rstrip(">")
RECURSIVE rstrip_gt(_)
rstrip_gt(s) ==
    IF s # <<>> /\ s[Len(s)] = ">" THEN rstrip_gt(SubSeq(s, 1, Len(s) - 1))
    ELSE s

\* The first piece of s.split("<").
FirstPiece(s) ==
    IF "<" \in Range(s)
      THEN SubSeq(s, 1, (CHOOSE i \in 1..Len(s) :
                            s[i] = "<" /\ \A j \in 1..(i - 1) : s[j] # "<") - 1)
      ELSE s

\* Lines 356-360: the address of a From header, "Name <email>" or bare.
ExtractAddress(from_addr) ==
    IF "<" \in Range(from_addr)
      THEN rstrip_gt(FirstPiece(
               SubSeq(from_addr, Len(FirstPiece(from_addr)) + 2, Len(from_addr))))
      ELSE from_addr

-----------------------------------------------------------------------------
(* The send command                                                         *)

GET_METADATA == "messages.get(format=metadata)"
GET_FULL == "messages.get(format=full)"
SEND_MESSAGE == "messages.send"

\* The command line of "send": --to (empty when not given), --subject
\* (default ""), whether a non-empty body was given, whether --reply-to was
\* given, --dry-run.
SendArgs == [to : {<<>>, <<"a">>}, subject : Strings(MaxSubjectLen),
             body : BOOLEAN, reply_to : BOOLEAN, dry_run : BOOLEAN]

\* The subjects get_message_snippet and get_message_full can report for the
\* reply target, and its From headers.
OriginalSubjects == Strings(MaxSubjectLen) \cup {NoSubject}
OriginalFroms == {<<>>, <<"j">>, <<"J", " ", "<", "j", ">">>}
OriginalMessageIds == {<<>>, <<"m">>}

InitSend ==
    /\ args \in SendArgs
    /\ original = [fetched |-> FALSE, subject |-> <<>>]
    /\ to = <<>>
    /\ subject = <<>>
    /\ message = None
    /\ apiCalls = <<>>
    /\ tokenFile = Absent /\ tokenFile0 = Absent /\ secretFile = TRUE
    /\ creds = granted
    /\ refreshCalls = 0 /\ refreshFailed = FALSE
    /\ flowCalls = 0 /\ saveCalls = 0
    /\ payload = None /\ idx = 0 /\ body = None
    /\ pc = "main_body"
    /\ result = None
    /\ exitCode = NotExited

\* service.users().messages().get(...).execute() on the reply target, lines
\* 106-109 and 128-130: the call is made; the remote holds one message, so
\* every fetch reports the same subject.
Fetch(call) ==
    /\ apiCalls' = Append(apiCalls, call)
    /\ IF original.fetched
         THEN UNCHANGED original
         ELSE \E s \in OriginalSubjects :
                 original' = [fetched |-> TRUE, subject |-> s]

\* A remote call that raises: main's handler prints and exits with 1.
RemoteError(call) ==
    /\ apiCalls' = Append(apiCalls, call)
    /\ Exit(1)

\* Lines 342-349: the body, or exit 1 without one.
MainBody ==
    /\ pc = "main_body"
    /\ IF args.body
         THEN pc' = "main_to" /\ UNCHANGED <<result, exitCode>>
         ELSE Exit(1)
    /\ UNCHANGED <<credVars, sendVars, decodeVars>>

\* Lines 351-365: the recipient; a reply without --to fetches the original
\* and takes its sender; exit 1 without a recipient.
MainTo ==
    /\ pc = "main_to"
    /\ IF args.reply_to /\ args.to = <<>>
         THEN \/ /\ Fetch(GET_METADATA)
                 /\ \E f \in OriginalFroms :
                       /\ to' = ExtractAddress(f)
                       /\ IF ExtractAddress(f) = <<>>
                            THEN Exit(1)
                            ELSE pc' = "main_subject"
                                 /\ UNCHANGED <<result, exitCode>>
              \/ /\ RemoteError(GET_METADATA)
                 /\ UNCHANGED <<original, to>>
         ELSE /\ to' = args.to
              /\ IF args.to = <<>>
                   THEN Exit(1)
                   ELSE pc' = "main_subject" /\ UNCHANGED <<result, exitCode>>
              /\ UNCHANGED <<original, apiCalls>>
    /\ UNCHANGED <<args, subject, message, credVars, decodeVars>>

\* Lines 370-372: the original's subject, prefixed unless it starts with
\* "re:" in any case.
DefaultReplySubject(orig) ==
    IF ~startswith(lower(orig), re_colon) THEN Re_prefix \o orig ELSE orig

\* Lines 367-372: the subject; a reply without --subject fetches the original
\* and takes its subject.
MainSubject ==
    /\ pc = "main_subject"
    /\ IF args.reply_to /\ args.subject = <<>>
         THEN \/ /\ Fetch(GET_METADATA)
                 /\ subject' = DefaultReplySubject(original'.subject)
                 /\ pc' = "send_message"
                 /\ UNCHANGED <<result, exitCode>>
              \/ /\ RemoteError(GET_METADATA)
                 /\ UNCHANGED <<original, subject>>
         ELSE /\ subject' = args.subject
              /\ pc' = "send_message"
              /\ UNCHANGED <<original, apiCalls, result, exitCode>>
    /\ UNCHANGED <<args, to, message, credVars, decodeVars>>

\* Lines 230-232: the subject header of a reply, given the subject passed in
\* and the original's subject.
ReplySubject(subj, orig) ==
    IF ~startswith(lower(subj), re_colon) THEN Re_prefix \o orig ELSE subj

\* Lines 207-239: the message; a reply fetches the original in full, takes
\* its Message-ID (when it has one) and thread, and sets the subject.
BuildMessage ==
    /\ pc = "send_message"
    /\ IF args.reply_to
         THEN \/ /\ Fetch(GET_FULL)
                 /\ \E mid \in OriginalMessageIds :
                       message' = [to |-> to,
                                   subject |->
                                       ReplySubject(subject, original'.subject),
                                   in_reply_to |-> mid,
                                   threadId |-> "t1"]
                 /\ pc' = "dispatch"
                 /\ UNCHANGED <<result, exitCode>>
              \/ /\ RemoteError(GET_FULL)
                 /\ UNCHANGED <<original, message>>
         ELSE /\ message' = [to |-> to, subject |-> subject,
                             in_reply_to |-> <<>>, threadId |-> ""]
              /\ pc' = "dispatch"
              /\ UNCHANGED <<original, apiCalls, result, exitCode>>
    /\ UNCHANGED <<args, to, subject, credVars, decodeVars>>

\* Dispatch without the dry_run test of lines 241-253: the message is sent.
Dispatch_AlwaysSends ==
    /\ pc = "dispatch"
    /\ apiCalls' = Append(apiCalls, SEND_MESSAGE)
    /\ result' = [id |-> "sent", threadId |-> message.threadId]
    /\ pc' = "done"
    /\ UNCHANGED <<args, original, to, subject, message, exitCode, credVars,
                   decodeVars>>

\* Lines 241-262: a dry run prints and returns None; otherwise the message is
\* sent and the remote's answer, with the new message's id, is returned.
Dispatch ==
    /\ pc = "dispatch"
    /\ IF args.dry_run
         THEN /\ result' = None
              /\ pc' = "done"
              /\ UNCHANGED <<apiCalls, exitCode>>
         ELSE \/ /\ apiCalls' = Append(apiCalls, SEND_MESSAGE)
                 /\ result' = [id |-> "sent", threadId |-> message.threadId]
                 /\ pc' = "done"
                 /\ UNCHANGED exitCode
              \/ RemoteError(SEND_MESSAGE)
    /\ UNCHANGED <<args, original, to, subject, message, credVars, decodeVars>>

NextSend ==
    \/ MainBody
    \/ MainTo
    \/ MainSubject
    \/ BuildMessage
    \/ Dispatch

SpecSend == InitSend /\ [][NextSend]_vars

-----------------------------------------------------------------------------
(* get_message_full: body extraction                                        *)

MaxParts == 3

TEXT_PLAIN == "text/plain"
TEXT_HTML == "text/html"
MULTIPART == "multipart/alternative"

\* body["data"] of a payload or part: the key missing, the empty string, or
\* the URL-safe base64 of "a" or of "b".
NoData == "<no data key>"
Datas == {NoData, "", "YQ==", "Yg=="}

\* base64.urlsafe_b64decode(data).decode("utf-8", errors="replace")
b64decode(d) ==
    CASE d = "YQ==" -> "a"
      [] d = "Yg==" -> "b"
      [] OTHER -> ""

\* Python truth of body.get("data").
HasData(d) == d # NoData /\ d # ""

Part == [mimeType : {TEXT_PLAIN, TEXT_HTML, MULTIPART}, data : Datas]

PartLists(n) == UNION {[1..k -> Part] : k \in 0..n}

\* msg["payload"]: its own body data and its parts (none when the key is
\* missing).
Payloads == [data : Datas, parts : PartLists(MaxParts)]

InitDecode ==
    /\ payload \in Payloads
    /\ idx = 0
    /\ body = ""
    /\ args = None /\ original = None /\ to = None /\ subject = None
    /\ message = None /\ apiCalls = <<GET_FULL>>
    /\ tokenFile = Absent /\ tokenFile0 = Absent /\ secretFile = TRUE
    /\ creds = granted
    /\ refreshCalls = 0 /\ refreshFailed = FALSE
    /\ flowCalls = 0 /\ saveCalls = 0
    /\ pc = "extract"
    /\ result = None
    /\ exitCode = NotExited

\* Lines 135-140: the payload's own body data when it has some, else the
\* scan of the parts.
ExtractDirect ==
    /\ pc = "extract"
    /\ IF HasData(payload.data)
         THEN body' = b64decode(payload.data) /\ pc' = "return" /\ idx' = idx
         ELSE body' = "" /\ pc' = "scan" /\ idx' = 1
    /\ UNCHANGED <<payload, result, exitCode, credVars, sendVars>>

\* Lines 141-146, one turn of the loop: a plain-text part with data is taken
\* and ends the scan; an HTML part is taken while body is empty, and reading
\* the data of one that has none raises KeyError, which main's handler turns
\* into exit 1.
ScanPart ==
    /\ pc = "scan"
    /\ idx <= Len(payload.parts)
    /\ LET part == payload.parts[idx] IN
         IF part.mimeType = TEXT_PLAIN /\ HasData(part.data)
           THEN /\ body' = b64decode(part.data)
                /\ pc' = "return"
                /\ UNCHANGED <<idx, result, exitCode>>
           ELSE IF part.mimeType = TEXT_HTML /\ body = ""
             THEN IF part.data = NoData
                    THEN Exit(1) /\ UNCHANGED <<body, idx>>
                    ELSE /\ body' = b64decode(part.data)
                         /\ idx' = idx + 1
                         /\ UNCHANGED <<pc, result, exitCode>>
             ELSE /\ idx' = idx + 1
                  /\ UNCHANGED <<body, pc, result, exitCode>>
    /\ UNCHANGED <<payload, credVars, sendVars>>

\* Line 141: the loop ends with the parts exhausted.
ScanEnd ==
    /\ pc = "scan"
    /\ idx > Len(payload.parts)
    /\ pc' = "return"
    /\ UNCHANGED <<decodeVars, result, exitCode, credVars, sendVars>>

\* Lines 148-158: the decoded message.
ReturnMessage ==
    /\ pc = "return"
    /\ result' = [body |-> body]
    /\ pc' = "done"
    /\ UNCHANGED <<decodeVars, exitCode, credVars, sendVars>>

NextDecode ==
    \/ ExtractDirect
    \/ ScanPart
    \/ ScanEnd
    \/ ReturnMessage

SpecDecode == InitDecode /\ [][NextDecode]_vars

-----------------------------------------------------------------------------
(* Properties of get_credentials                                            *)

\* The process started with a parsable token file.
HasStored == tokenFile0 \notin {Absent, Corrupt}

\* The stored credential's scopes include every required scope.
StoredSufficient == HasStored /\ SCOPES \subseteq tokenFile0.scopes

\* get_credentials has passed the refresh step of lines 60-65.
PastRefresh == pc \in {"reauth", "save", "return", "done", "exit"}

\* C1: from a token file that is absent or holds a credential with an access
\* token (unexpired, expired with or without a refresh token, with or without
\* the required scopes), a credential get_credentials returns is Valid: it
\* carries an access token and its expiry has not passed.
C1_ReturnedIsValid ==
    (/\ tokenFile0 = Absent \/ (HasStored /\ tokenFile0.token = "stored")
     /\ pc = "done")
        => (result # None /\ result.token # "none" /\ ~result.expired)

C3_Untouched ==
    /\ refreshCalls = 0 /\ flowCalls = 0 /\ saveCalls = 0
    /\ tokenFile = tokenFile0
    /\ pc # "exit"
    /\ pc = "done" => result = tokenFile0

\* C3 as stated: a stored credential with all required scopes whose expiry
\* has not passed is returned unchanged, with no refresh, flow or write.
C3_Original ==
    (StoredSufficient /\ ~tokenFile0.expired) => C3_Untouched

\* C3 amended: a stored credential with all required scopes that carries an
\* access token and whose expiry has not passed is returned unchanged, with
\* no refresh, flow or write.
C3_ValidUnchanged ==
    (StoredSufficient /\ ~tokenFile0.expired /\ tokenFile0.token = "stored")
        => C3_Untouched

\* C3's case: a valid stored credential with both scopes has been returned.
C3_Witness ==
    /\ StoredSufficient
    /\ ~tokenFile0.expired /\ tokenFile0.token = "stored"
    /\ pc = "done" /\ result = tokenFile0

\* What C4 promises once the refresh step is passed: one refresh call; after a
\* failed one the credential is forgotten, only a fresh grant is returned and
\* the process exits only from the re-authorization that follows (missing
\* client secret, failed flow or failed write); after a successful one the
\* interactive flow is not run.
C4_Recovered ==
    /\ PastRefresh => refreshCalls = 1
    /\ refreshFailed =>
          /\ pc = "reauth" => creds = None
          /\ pc \in {"save", "return", "done"} =>
                (creds = granted /\ flowCalls = 1)
          /\ pc = "done" => result = granted
          /\ pc = "exit" => (~secretFile \/ flowCalls = 1)
    /\ (refreshCalls = 1 /\ ~refreshFailed) =>
          /\ flowCalls = 0
          /\ creds = refreshed(tokenFile0)

\* C4 as stated: every stored credential that is expired and has a refresh
\* token is refreshed, with the recovery above.
C4_Original ==
    (HasStored /\ tokenFile0.expired /\ tokenFile0.refresh_token)
        => C4_Recovered

\* C4 amended: every stored credential that is expired, has a refresh token
\* and reports either no scopes or all required scopes is refreshed, with the
\* recovery above.
C4_RefreshOrReauth ==
    (/\ HasStored
     /\ tokenFile0.expired /\ tokenFile0.refresh_token
     /\ tokenFile0.scopes = {} \/ SCOPES \subseteq tokenFile0.scopes)
        => C4_Recovered

\* C4's case: the refresh of a sufficient, expired credential failed and the
\* interactive flow supplied the credential returned.
C4_Witness ==
    /\ StoredSufficient
    /\ tokenFile0.expired /\ tokenFile0.refresh_token
    /\ refreshFailed
    /\ pc = "done" /\ result = granted /\ flowCalls = 1

\* C5: the token file is written at most once per invocation, and it changes
\* only by that write; a returned credential that a refresh or the
\* interactive flow produced has been saved exactly once before the return
\* and is what the token file holds.
C5_SavedOnce ==
    /\ saveCalls <= 1
    /\ saveCalls = 0 => tokenFile = tokenFile0
    /\ (pc = "done" /\ result.token \in {"refreshed", "granted"})
          => (saveCalls = 1 /\ tokenFile = result)

\* C5's case: a refreshed credential has been saved once and returned.
C5_Witness ==
    /\ pc = "done"
    /\ result.token = "refreshed"
    /\ saveCalls = 1 /\ tokenFile = result

\* C6: with an unparsable token file and the client secret in place, the
\* process does not exit before the interactive flow has been run.
C6_CorruptReauthorizes ==
    (tokenFile0 = Corrupt /\ secretFile /\ pc = "exit") => flowCalls = 1

\* C7: when line 67 is reached without a credential and the client secret is
\* missing, the next step exits with status 1, with the interactive flow not
\* started, nothing written and the token file as it was at the start.
C7_SetupError ==
    [][(pc = "reauth" /\ creds = None /\ ~secretFile)
          => /\ pc' = "exit" /\ exitCode' = 1
             /\ flowCalls' = 0 /\ saveCalls' = 0
             /\ tokenFile' = tokenFile0]_vars

\* C7's case: after a failed refresh, with no client secret, the process has
\* exited with status 1 without running the flow.
C7_Witness ==
    /\ pc = "exit" /\ exitCode = 1
    /\ refreshFailed /\ ~secretFile
    /\ flowCalls = 0 /\ tokenFile = tokenFile0

-----------------------------------------------------------------------------
(* Properties of the send command                                           *)

\* C8 as stated: a dry-run send makes no remote call at all, neither a fetch
\* nor a send, and returns no message id.
C8_Original ==
    args.dry_run => (apiCalls = <<>> /\ (pc = "done" => result = None))

\* C8 amended: a dry-run send never calls messages.send and returns no
\* message id; without a reply target it makes no remote call at all (with
\* one, the original is fetched to resolve recipient, subject and thread).
C8_DryRunSendsNothing ==
    args.dry_run =>
        /\ SEND_MESSAGE \notin Range(apiCalls)
        /\ pc = "done" => result = None
        /\ ~args.reply_to => apiCalls = <<>>

\* C8's case: a dry-run reply has run to its end, having fetched the
\* original and sent nothing.
C8_Witness ==
    /\ args.dry_run /\ args.reply_to
    /\ pc = "done" /\ result = None
    /\ GET_FULL \in Range(apiCalls)

\* The subject C9 expects of a reply: the base, prefixed with "Re: " unless it
\* already starts with "re:" in any case.
C9_Expected(base) ==
    IF startswith(lower(base), re_colon) THEN base ELSE Re_prefix \o base

\* C9: the subject of a reply is the base subject (the user's when given, the
\* original's otherwise) with exactly one application of the "Re: " prefix
\* rule.
C9_ReplySubject ==
    (pc \in {"dispatch", "done"} /\ args.reply_to) =>
        message.subject =
            C9_Expected(IF args.subject # <<>> THEN args.subject
                        ELSE original.subject)

-----------------------------------------------------------------------------
(* Properties of get_message_full                                           *)

\* The parts of the payload with the given media type, in order.
PartsOf(mime) == SelectSeq(payload.parts, LAMBDA q : q.mimeType = mime)

\* C10: for a payload without direct body data whose parts hold a plain-text
\* part and an HTML part, get_message_full returns the content of the first
\* plain-text part.
C10_PlainTextFirst ==
    (/\ ~HasData(payload.data)
     /\ PartsOf(TEXT_PLAIN) # <<>> /\ PartsOf(TEXT_HTML) # <<>>
     /\ pc \in {"done", "exit"})
        => (pc = "done"
            /\ result.body = b64decode(PartsOf(TEXT_PLAIN)[1].data))

=============================================================================
